---- MODULE Spec2Model ----
(***************************************************************************)
(* go-cartstack: the cart stacks of src/App.tsx (stack registry, file      *)
(* ingestion, duration back-fill, cross-stack moves) and of                *)
(* src/components/CartStack.tsx (playback status transitions, reorder,     *)
(* remove, requeue, hotkey, drag and drop).                                *)
(*                                                                         *)
(* Conventions.                                                            *)
(*   - A cart id (uuidv4) is a positive integer; NullId stands for null.   *)
(*   - Sequences are 1-based: JavaScript index k is position k + 1, and    *)
(*     findIndex's -1 is NotFound = 0.                                     *)
(*   - React applies every functional state update to the latest state,    *)
(*     so each handler's update is one step.                               *)
(*   - While a drag-and-drop operation is in progress the browser          *)
(*     suppresses keyboard and mouse events (HTML drag-and-drop processing *)
(*     model); media events, promise continuations and metadata callbacks  *)
(*     still run.                                                          *)
(***************************************************************************)
EXTENDS Integers, Sequences, FiniteSets, TLC

\* ---------------------------------------------------------------- bounds
MaxItems == 2        \* carts ever created under Spec (uuidv4 never repeats an id)
MaxProbed == 1       \* carts ever created under SpecProbe
MaxFiles == 2        \* files handed to one addFilesToStack call
MaxDuration == 1     \* durations a metadata probe may report: 1..MaxDuration
MaxCarts == 2        \* carts in the stacks when an updater is called under SpecUpdaters
MaxFrames == 3       \* frames of a buffer decoded from a dropped or recorded file
MaxClips == 1        \* carts made of editor selections under SpecEditorCalls
MaxAdded == 3        \* carts ever created under SpecAddFiles

\* ------------------------------------------------------------- constants
STACKS == {"stack-a", "stack-b", "stack-c"}

NullId == 0
NotFound == 0
NoDrag == [cartId |-> NullId, sourceStackId |-> "none"]
FileTypes == {"audio/wav", "text/plain"}
\* a dropped file: its MIME type, and whether its metadata can be read at all
\* (onloadedmetadata never fires for a file whose metadata cannot be read)
FileNames == {"clip.wav"}
Files == [type : FileTypes, loads : BOOLEAN, name : FileNames]
Statuses == {"queued", "playing", "paused", "played"}

VARIABLES
    stackState,   \* App: Record<stackId, CartItem[]>
    isPlaying,    \* CartStack: isPlaying, one per stack
    playPending,  \* CartStack: cart id whose `await audio.play()` is pending, per stack
    probes,       \* App: onloadedmetadata callbacks not yet fired: {[stackId, cartId]}
    drag,         \* the dataTransfer payload of the drag in progress, or NoDrag
    nextId,       \* the next fresh uuid
    appended,     \* history: per stack, ids put into it and not taken out again
    decodedData,  \* AudioEditor: wavesurfer.getDecodedData(), NoBuffer for null
    loading,      \* AudioEditor: the load in progress in wavesurfer, or NoLoad
    regionList,   \* AudioEditor: regions.getRegions()
    hasRegion,    \* AudioEditor: hasRegion
    newBuffer,    \* AudioEditor: newBuffer of the handler that ran in this step
    wavBlob,      \* AudioEditor: bytes of the Blob bufferToWave returned in this step
    alerted       \* AudioEditor: alert('Please highlight a region first.') in this step

cartVars == <<stackState, isPlaying, playPending, probes, drag, nextId, appended>>
editorVars == <<decodedData, loading, regionList, hasRegion, newBuffer, wavBlob, alerted>>
vars == <<cartVars, editorVars>>

\* ------------------------------------------------------- array primitives
\* Array.prototype.findIndex(c => c.id === id)
findIndexById(carts, id) ==
    IF \E i \in 1..Len(carts) : carts[i].id = id
    THEN CHOOSE i \in 1..Len(carts) :
            /\ carts[i].id = id
            /\ \A j \in 1..(i - 1) : carts[j].id # id
    ELSE NotFound

\* Array.prototype.findIndex(c => c.status === 'playing')
findIndexPlaying(carts) ==
    IF \E i \in 1..Len(carts) : carts[i].status = "playing"
    THEN CHOOSE i \in 1..Len(carts) :
            /\ carts[i].status = "playing"
            /\ \A j \in 1..(i - 1) : carts[j].status # "playing"
    ELSE NotFound

\* next.splice(i, 1)
spliceOut(carts, i) ==
    [k \in 1..(Len(carts) - 1) |-> IF k < i THEN carts[k] ELSE carts[k + 1]]

\* next.splice(i, 0, cart); i is the 1-based position the cart ends up at
spliceIn(carts, i, cart) ==
    [k \in 1..(Len(carts) + 1) |->
        IF k < i THEN carts[k] ELSE IF k = i THEN cart ELSE carts[k - 1]]

\* prev[stackId] ?? []
cartsOf(prev, stackId) ==
    IF stackId \in DOMAIN prev THEN prev[stackId] ELSE <<>>

\* ------------------------------------------------ App.tsx: state updaters
\* { ...prev, [stackId]: carts }
withStack(prev, stackId, carts) ==
    [s \in DOMAIN prev \cup {stackId} |-> IF s = stackId THEN carts ELSE prev[s]]

\* setStackCarts: `if (next === current) return prev; return {...prev, [stackId]: next}`
setStackCarts(prev, stackId, next) ==
    IF next = cartsOf(prev, stackId) THEN prev ELSE withStack(prev, stackId, next)

\* files.filter(f => f.type.startsWith('audio/'))
startsWithAudio(file) ==
    file.type \in {"audio/wav"}

\* mutant of audioFilesOf: every dropped file is taken for an audio file
audioFilesOfKeepsAll(files) ==
    files

audioFilesOf(files) ==
    SelectSeq(files, startsWithAudio)

\* audioFiles.map(file => ({ id: uuidv4(), file, title: file.name, duration: 0,
\* status: 'queued' })); url is determined by file, addedAt is never read
newCartsOf(audioFiles, firstId) ==
    [k \in 1..Len(audioFiles) |->
        [id |-> firstId + k - 1, file |-> audioFiles[k], title |-> audioFiles[k].name,
         duration |-> 0, status |-> "queued"]]

\* { ...prev, [stackId]: [...current, ...newCarts] }
addFilesToStack(prev, stackId, newCarts) ==
    withStack(prev, stackId, cartsOf(prev, stackId) \o newCarts)

\* mutant of onloadedmetadata: a callback that puts a missing cart back
onloadedmetadataResurrects(prev, stackId, cartId, duration) ==
    LET current == cartsOf(prev, stackId)
    IN  IF \E k \in 1..Len(current) : current[k].id = cartId
        THEN withStack(prev, stackId,
                [k \in 1..Len(current) |->
                    IF current[k].id = cartId
                    THEN [current[k] EXCEPT !.duration = duration]
                    ELSE current[k]])
        ELSE withStack(prev, stackId,
                Append(current,
                       [id |-> cartId, file |-> [type |-> "audio/wav", loads |-> TRUE,
                                                 name |-> "clip.wav"],
                        title |-> "clip.wav", duration |-> duration, status |-> "queued"]))

\* audio.onloadedmetadata: the update is applied to prev[stackId], the stack the
\* files were added to, and maps over that stack only.
onloadedmetadata(prev, stackId, cartId, duration) ==
    LET current == cartsOf(prev, stackId)
    IN  withStack(prev, stackId,
            [k \in 1..Len(current) |->
                IF current[k].id = cartId
                THEN [current[k] EXCEPT !.duration = duration]
                ELSE current[k]])

\* mutant of moveCartAcrossStacks: the cart is inserted but left in its stack
moveCartAcrossStacksCopies(prev, fromStackId, toStackId, cartId, targetId) ==
    IF fromStackId = toStackId THEN prev
    ELSE
    LET fromCarts == cartsOf(prev, fromStackId)
        toCarts   == cartsOf(prev, toStackId)
        fromIndex == findIndexById(fromCarts, cartId)
    IN  IF fromIndex = NotFound THEN prev
        ELSE
        LET found == IF targetId # NullId
                     THEN findIndexById(toCarts, targetId)
                     ELSE Len(toCarts) + 1
            insertIndex == IF found = NotFound THEN Len(toCarts) + 1 ELSE found
        IN  withStack(prev, toStackId, spliceIn(toCarts, insertIndex, fromCarts[fromIndex]))

\* mutant of moveCartAcrossStacks: the cart is inserted after the target
moveCartAcrossStacksAfterTarget(prev, fromStackId, toStackId, cartId, targetId) ==
    IF fromStackId = toStackId THEN prev
    ELSE
    LET fromCarts == cartsOf(prev, fromStackId)
        toCarts   == cartsOf(prev, toStackId)
        fromIndex == findIndexById(fromCarts, cartId)
    IN  IF fromIndex = NotFound THEN prev
        ELSE
        LET movedCart == fromCarts[fromIndex]
            found     == IF targetId # NullId
                         THEN findIndexById(toCarts, targetId)
                         ELSE Len(toCarts) + 1
            insertIndex == IF found = NotFound THEN Len(toCarts) + 1
                           ELSE IF found > Len(toCarts) THEN found ELSE found + 1
            cartToInsert == IF insertIndex = 1 /\ movedCart.status = "played"
                            THEN [movedCart EXCEPT !.status = "queued"]
                            ELSE movedCart
        IN  withStack(withStack(prev, fromStackId, spliceOut(fromCarts, fromIndex)),
                      toStackId, spliceIn(toCarts, insertIndex, cartToInsert))

\* mutant of moveCartAcrossStacks: the cart arrives with its duration reset
moveCartAcrossStacksResetsDuration(prev, fromStackId, toStackId, cartId, targetId) ==
    IF fromStackId = toStackId THEN prev
    ELSE
    LET fromCarts == cartsOf(prev, fromStackId)
        toCarts   == cartsOf(prev, toStackId)
        fromIndex == findIndexById(fromCarts, cartId)
    IN  IF fromIndex = NotFound THEN prev
        ELSE
        LET movedCart == [fromCarts[fromIndex] EXCEPT !.duration = 0]
            found     == IF targetId # NullId
                         THEN findIndexById(toCarts, targetId)
                         ELSE Len(toCarts) + 1
            insertIndex == IF found = NotFound THEN Len(toCarts) + 1 ELSE found
            cartToInsert == IF insertIndex = 1 /\ movedCart.status = "played"
                            THEN [movedCart EXCEPT !.status = "queued"]
                            ELSE movedCart
        IN  withStack(withStack(prev, fromStackId, spliceOut(fromCarts, fromIndex)),
                      toStackId, spliceIn(toCarts, insertIndex, cartToInsert))

\* mutant of moveCartAcrossStacks: a move within one stack is carried out too
moveCartAcrossStacksSameStack(prev, fromStackId, toStackId, cartId, targetId) ==
    LET fromCarts == cartsOf(prev, fromStackId)
        toCarts   == cartsOf(prev, toStackId)
        fromIndex == findIndexById(fromCarts, cartId)
    IN  IF fromIndex = NotFound THEN prev
        ELSE
        LET found == IF targetId # NullId
                     THEN findIndexById(toCarts, targetId)
                     ELSE Len(toCarts) + 1
            insertIndex == IF found = NotFound THEN Len(toCarts) + 1 ELSE found
        IN  withStack(withStack(prev, fromStackId, spliceOut(fromCarts, fromIndex)),
                      toStackId, spliceIn(toCarts, insertIndex, fromCarts[fromIndex]))

\* mutant of moveCartAcrossStacks: without the check of fromIndex, splice(-1, 1)
\* takes the last cart of the source stack
moveCartAcrossStacksTakesLast(prev, fromStackId, toStackId, cartId, targetId) ==
    IF fromStackId = toStackId THEN prev
    ELSE
    LET fromCarts == cartsOf(prev, fromStackId)
        toCarts   == cartsOf(prev, toStackId)
        foundFrom == findIndexById(fromCarts, cartId)
        fromIndex == IF foundFrom = NotFound THEN Len(fromCarts) ELSE foundFrom
    IN  IF fromIndex = 0 THEN prev
        ELSE
        LET nextFrom  == spliceOut(fromCarts, fromIndex)
            movedCart == fromCarts[fromIndex]
            found     == IF targetId # NullId
                         THEN findIndexById(toCarts, targetId)
                         ELSE Len(toCarts) + 1
            insertIndex == IF found = NotFound THEN Len(toCarts) + 1 ELSE found
            shouldReenable == insertIndex = 1 /\ movedCart.status = "played"
            cartToInsert == IF shouldReenable
                            THEN [movedCart EXCEPT !.status = "queued"]
                            ELSE movedCart
            nextTo == spliceIn(toCarts, insertIndex, cartToInsert)
        IN  withStack(withStack(prev, fromStackId, nextFrom), toStackId, nextTo)

moveCartAcrossStacks(prev, fromStackId, toStackId, cartId, targetId) ==
    IF fromStackId = toStackId THEN prev
    ELSE
    LET fromCarts == cartsOf(prev, fromStackId)
        toCarts   == cartsOf(prev, toStackId)
        fromIndex == findIndexById(fromCarts, cartId)
    IN  IF fromIndex = NotFound THEN prev
        ELSE
        LET nextFrom  == spliceOut(fromCarts, fromIndex)
            movedCart == fromCarts[fromIndex]
            found     == IF targetId # NullId
                         THEN findIndexById(toCarts, targetId)
                         ELSE Len(toCarts) + 1
            insertIndex == IF found = NotFound THEN Len(toCarts) + 1 ELSE found
            shouldReenable == insertIndex = 1 /\ movedCart.status = "played"
            cartToInsert == IF shouldReenable
                            THEN [movedCart EXCEPT !.status = "queued"]
                            ELSE movedCart
            nextTo == spliceIn(toCarts, insertIndex, cartToInsert)
        IN  withStack(withStack(prev, fromStackId, nextFrom), toStackId, nextTo)

\* ------------------------------------------ CartStack.tsx: state updaters
\* mutant of handleEnded: the cart that ended is queued again
handleEndedRequeues(prev) ==
    LET playingIndex == findIndexPlaying(prev)
    IN  IF playingIndex = NotFound THEN prev
        ELSE Append(spliceOut(prev, playingIndex),
                    [prev[playingIndex] EXCEPT !.status = "queued"])

\* handleEnded's setCarts updater
handleEnded(prev) ==
    LET playingIndex == findIndexPlaying(prev)
    IN  IF playingIndex = NotFound THEN prev
        ELSE Append(spliceOut(prev, playingIndex),
                    [prev[playingIndex] EXCEPT !.status = "played"])

\* mutant of stopCart: the stopped cart is marked played where it is
stopCartInPlace(prev) ==
    [k \in 1..Len(prev) |->
        IF k = findIndexPlaying(prev) THEN [prev[k] EXCEPT !.status = "played"] ELSE prev[k]]

\* stopCart's setCarts updater
stopCart(prev) ==
    LET playingIndex == findIndexPlaying(prev)
    IN  IF playingIndex = NotFound THEN prev
        ELSE Append(spliceOut(prev, playingIndex),
                    [prev[playingIndex] EXCEPT !.status = "played"])

\* mutant of playCart: the carts that were playing are left playing
playCartKeepsOthers(prev, cartId) ==
    [k \in 1..Len(prev) |->
        IF prev[k].id = cartId THEN [prev[k] EXCEPT !.status = "playing"] ELSE prev[k]]

\* playCart's setCarts updater, run after `await audio.play()`
playCart(prev, cartId) ==
    [k \in 1..Len(prev) |->
        IF prev[k].id = cartId THEN [prev[k] EXCEPT !.status = "playing"]
        ELSE IF prev[k].status = "playing" THEN [prev[k] EXCEPT !.status = "played"]
        ELSE prev[k]]

requeueCart(prev, id) ==
    [k \in 1..Len(prev) |->
        IF prev[k].id = id THEN [prev[k] EXCEPT !.status = "queued"] ELSE prev[k]]

\* mutant of removeCart: the carts already played are cleared away as well
removeCartAndPlayed(prev, id) ==
    LET keep(c) == c.id # id /\ c.status # "played" IN SelectSeq(prev, keep)

\* the remove button: prev.filter(c => c.id !== cart.id)
removeCart(prev, id) ==
    LET keep(c) == c.id # id IN SelectSeq(prev, keep)

\* mutant of moveCartWithinStack: the cart is inserted but not taken out first
moveCartWithinStackCopies(prev, fromId, toId) ==
    IF fromId = toId THEN prev
    ELSE
    LET fromIndex == findIndexById(prev, fromId)
    IN  IF fromIndex = NotFound THEN prev
        ELSE
        LET found == IF toId # NullId THEN findIndexById(prev, toId) ELSE Len(prev) + 1
            insertIndex == IF found = NotFound THEN Len(prev) + 1 ELSE found
        IN  spliceIn(prev, insertIndex, prev[fromIndex])

\* mutant of moveCartWithinStack: a played cart is requeued wherever it lands
moveCartWithinStackAlwaysReenables(prev, fromId, toId) ==
    IF fromId = toId THEN prev
    ELSE
    LET fromIndex == findIndexById(prev, fromId)
    IN  IF fromIndex = NotFound THEN prev
        ELSE
        LET next  == spliceOut(prev, fromIndex)
            moved == prev[fromIndex]
            found == IF toId # NullId THEN findIndexById(next, toId) ELSE Len(next) + 1
            insertIndex == IF found = NotFound THEN Len(next) + 1 ELSE found
            cartToInsert == IF moved.status = "played"
                            THEN [moved EXCEPT !.status = "queued"]
                            ELSE moved
        IN  spliceIn(next, insertIndex, cartToInsert)

\* mutant of moveCartWithinStack: the target is looked up before the removal
moveCartWithinStackIndexBeforeRemoval(prev, fromId, toId) ==
    IF fromId = toId THEN prev
    ELSE
    LET fromIndex == findIndexById(prev, fromId)
    IN  IF fromIndex = NotFound THEN prev
        ELSE
        LET next  == spliceOut(prev, fromIndex)
            moved == prev[fromIndex]
            found == IF toId # NullId THEN findIndexById(prev, toId) ELSE Len(next) + 1
            insertIndex == IF found = NotFound THEN Len(next) + 1 ELSE found
            shouldReenable == insertIndex = 1 /\ moved.status = "played"
            cartToInsert == IF shouldReenable
                            THEN [moved EXCEPT !.status = "queued"]
                            ELSE moved
        IN  spliceIn(next, insertIndex, cartToInsert)

moveCartWithinStack(prev, fromId, toId) ==
    IF fromId = toId THEN prev
    ELSE
    LET fromIndex == findIndexById(prev, fromId)
    IN  IF fromIndex = NotFound THEN prev
        ELSE
        LET next  == spliceOut(prev, fromIndex)
            moved == prev[fromIndex]
            found == IF toId # NullId THEN findIndexById(next, toId) ELSE Len(next) + 1
            insertIndex == IF found = NotFound THEN Len(next) + 1 ELSE found
            shouldReenable == insertIndex = 1 /\ moved.status = "played"
            cartToInsert == IF shouldReenable
                            THEN [moved EXCEPT !.status = "queued"]
                            ELSE moved
        IN  spliceIn(next, insertIndex, cartToInsert)

\* mutant of getActiveIndex: the top cart is always the active one
getActiveIndexTop(carts) ==
    IF Len(carts) > 0 THEN 1 ELSE NotFound

\* getActiveIndex: the playing cart, else position 0, else -1
getActiveIndex(carts) ==
    IF findIndexPlaying(carts) # NotFound THEN findIndexPlaying(carts)
    ELSE IF Len(carts) > 0 THEN 1 ELSE NotFound

\* ------------------------------------------- AudioEditor.tsx: the buffers
\* An AudioBuffer is [sampleRate, numberOfChannels, length, channels]; a sample
\* n stands for the float n / SampleUnit, which Float32 holds exactly.
SampleUnit == 65536
\* what a Float32Array holds after a store of undefined
NaN == 1000000
\* wavesurfer.getDecodedData() === null
NoBuffer == [sampleRate |-> 0, numberOfChannels |-> 0, length |-> 0, channels |-> <<>>]
\* the decoded data after wavesurfer.empty(): a waveform without frames
EmptyBuffer == [sampleRate |-> 1, numberOfChannels |-> 1, length |-> 0, channels |-> << <<>> >>]
\* wavesurfer is loading nothing
NoLoad == [pending |-> FALSE, buffer |-> NoBuffer]
NoBlob == <<>>
\* region.start and region.end are seconds, held in ticks of 1/TicksPerSecond s
TicksPerSecond == 2
SampleRates == {1, 2}
ChannelCounts == {1, 2}
\* the samples of a dropped or recorded file once decoded, in the order they
\* follow each other in a file: below -1.0, 0.5, just under -0.5 (its product
\* with 0x8000 is no integer), above 1.0
FileSamples == <<-80000, 32768, -32769, 80000>>

\* mutant of floorSamples: Math.round in place of Math.floor
roundSamples(ticks, sampleRate) ==
    (2 * ticks * sampleRate + TicksPerSecond) \div (2 * TicksPerSecond)

\* Math.floor(seconds * sampleRate)
floorSamples(ticks, sampleRate) ==
    (ticks * sampleRate) \div TicksPerSecond

\* new AudioContext().createBuffer(numberOfChannels, length, sampleRate): silence
createBuffer(numberOfChannels, length, sampleRate) ==
    [sampleRate |-> sampleRate, numberOfChannels |-> numberOfChannels, length |-> length,
     channels |-> [i \in 1..numberOfChannels |-> [j \in 1..length |-> 0]]]

\* channelData[index] for a 0-based index: undefined past the end, stored as NaN
sampleAt(channelData, index) ==
    IF index + 1 \in 1..Len(channelData) THEN channelData[index + 1] ELSE NaN

\* TypedArray.subarray(begin, end), both clamped to the array
subarray(channelData, begin, end) ==
    LET b == IF begin > Len(channelData) THEN Len(channelData) ELSE begin
        e == IF end > Len(channelData) THEN Len(channelData) ELSE end
    IN  IF e <= b THEN <<>> ELSE [k \in 1..(e - b) |-> channelData[b + k]]

\* TypedArray.set(source, offset) throws RangeError when source does not fit
setThrows(target, source, offset) ==
    offset + Len(source) > Len(target)

\* TypedArray.set(source, offset) when it fits
typedArraySet(target, source, offset) ==
    [k \in 1..Len(target) |->
        IF k > offset /\ k <= offset + Len(source) THEN source[k - offset] ELSE target[k]]

\* exportSelectionBlob, lines 251-253: length = endSample - startSample
lengthOfRegion(decodedBuffer, region) ==
    floorSamples(region.end, decodedBuffer.sampleRate)
        - floorSamples(region.start, decodedBuffer.sampleRate)

\* exportSelectionBlob, lines 251-271: null (NoBuffer) when length <= 0
extractRegion(decodedBuffer, region) ==
    LET startSample == floorSamples(region.start, decodedBuffer.sampleRate)
        length      == lengthOfRegion(decodedBuffer, region)
    IN  IF length <= 0 THEN NoBuffer
        ELSE [createBuffer(decodedBuffer.numberOfChannels, length, decodedBuffer.sampleRate)
                EXCEPT !.channels =
                    [i \in 1..decodedBuffer.numberOfChannels |->
                        [j \in 1..length |->
                            sampleAt(decodedBuffer.channels[i], startSample + j - 1)]]]

\* rippleDeleteSelection, lines 297-309, for 0 < cutLength < length: the two
\* set calls of channel i throw when a subarray does not fit the new channel
rippleThrows(decodedBuffer, startSample, endSample) ==
    LET newLength == decodedBuffer.length - (endSample - startSample)
        silence   == [j \in 1..newLength |-> 0]
    IN  \E i \in 1..decodedBuffer.numberOfChannels :
            LET channelData == decodedBuffer.channels[i]
            IN  \/ setThrows(silence, subarray(channelData, 0, startSample), 0)
                \/ setThrows(silence,
                             subarray(channelData, endSample, Len(channelData)), startSample)

\* mutant of rippleDelete: the end of the buffer is dropped, not the selection
rippleDeleteTruncates(decodedBuffer, startSample, endSample) ==
    LET newLength == decodedBuffer.length - (endSample - startSample)
        created   == createBuffer(decodedBuffer.numberOfChannels, newLength,
                                  decodedBuffer.sampleRate)
    IN  [created EXCEPT !.channels =
            [i \in 1..decodedBuffer.numberOfChannels |->
                subarray(decodedBuffer.channels[i], 0, newLength)]]

rippleDelete(decodedBuffer, startSample, endSample) ==
    LET newLength == decodedBuffer.length - (endSample - startSample)
        created   == createBuffer(decodedBuffer.numberOfChannels, newLength,
                                  decodedBuffer.sampleRate)
    IN  [created EXCEPT !.channels =
            [i \in 1..decodedBuffer.numberOfChannels |->
                LET channelData == decodedBuffer.channels[i]
                    head == typedArraySet(created.channels[i],
                                          subarray(channelData, 0, startSample), 0)
                IN  typedArraySet(head,
                                  subarray(channelData, endSample, Len(channelData)),
                                  startSample)]]

\* ---------------------------------------- AudioEditor.tsx: bufferToWave
\* DataView.setUint16(pos, data, true)
setUint16(data) ==
    <<data % 256, (data \div 256) % 256>>

\* mutant of setUint32: the bytes are written big-endian
setUint32BigEndian(data) ==
    <<(data \div 16777216) % 256, (data \div 65536) % 256, (data \div 256) % 256, data % 256>>

\* DataView.setUint32(pos, data, true)
setUint32(data) ==
    <<data % 256, (data \div 256) % 256, (data \div 65536) % 256, (data \div 16777216) % 256>>

\* the whole part of (sample / SampleUnit) * factor for sample >= 0, computed
\* in two parts so that no product leaves 32 bits
scaled(sample, factor) ==
    (sample \div SampleUnit) * factor + ((sample % SampleUnit) * factor) \div SampleUnit

\* mutant of intSampleOf: a negative product is rounded down, not toward zero
intSampleOfFloors(sample) ==
    IF sample = NaN THEN 0
    ELSE LET clamped == IF sample < -SampleUnit THEN -SampleUnit
                        ELSE IF sample > SampleUnit THEN SampleUnit ELSE sample
         IN  IF clamped < 0
             THEN -(scaled(-clamped, 32768) + (IF (((-clamped) % SampleUnit) * 32768) % SampleUnit = 0
                                                  THEN 0 ELSE 1))
             ELSE scaled(clamped, 32767)

\* Math.max(-1, Math.min(1, sample)), then sample < 0 ? sample * 0x8000 : sample * 0x7fff,
\* then the truncation of DataView.setInt16; NaN is written as 0
intSampleOf(sample) ==
    IF sample = NaN THEN 0
    ELSE LET clamped == IF sample < -SampleUnit THEN -SampleUnit
                        ELSE IF sample > SampleUnit THEN SampleUnit ELSE sample
         IN  IF clamped < 0
             THEN -scaled(-clamped, 32768)
             ELSE scaled(clamped, 32767)

\* DataView.setInt16(pos, intSample, true): two's complement, little-endian
setInt16(intSample) ==
    setUint16(IF intSample < 0 THEN intSample + 65536 ELSE intSample)

\* the inner for loop: one frame, channel after channel
RECURSIVE writeFrame(_, _, _, _)
writeFrame(view, channels, i, offset) ==
    IF i > Len(channels) THEN view
    ELSE writeFrame(view \o setInt16(intSampleOf(sampleAt(channels[i], offset))),
                    channels, i + 1, offset)

\* mutant of writeLoop: the loop runs while pos <= length
RECURSIVE writeLoopOneMore(_, _, _)
writeLoopOneMore(loop, channels, length) ==
    IF Len(loop.view) <= length
    THEN writeLoopOneMore([view   |-> writeFrame(loop.view, channels, 1, loop.offset),
                           offset |-> loop.offset + 1,
                           reads  |-> loop.reads \cup
                                          {<<i, loop.offset>> : i \in 1..Len(channels)}],
                          channels, length)
    ELSE loop

\* while (pos < length) { ...; offset++ } with pos = Len(loop.view), variable by
\* variable: the view and the offset when the loop exits, and the reads
\* channels[i][offset] it made, the channel counted from 1 and the offset from 0
RECURSIVE writeLoop(_, _, _)
writeLoop(loop, channels, length) ==
    IF Len(loop.view) < length
    THEN writeLoop([view   |-> writeFrame(loop.view, channels, 1, loop.offset),
                    offset |-> loop.offset + 1,
                    reads  |-> loop.reads \cup {<<i, loop.offset>> : i \in 1..Len(channels)}],
                   channels, length)
    ELSE loop

\* while (pos < length) { ...; offset++ } with pos = Len(view): the bytes in the
\* view when the loop has exited
RECURSIVE writeInterleaved(_, _, _, _)
writeInterleaved(view, channels, offset, length) ==
    IF Len(view) < length
    THEN writeInterleaved(writeFrame(view, channels, 1, offset), channels, offset + 1, length)
    ELSE view

bufferToWave(abuffer, len) ==
    LET numOfChan == abuffer.numberOfChannels
        length    == len * numOfChan * 2 + 44
        header    == setUint32(1179011410)                   \* 0x46464952 "RIFF"
                     \o setUint32(length - 8)
                     \o setUint32(1163280727)                \* 0x45564157 "WAVE"
                     \o setUint32(544501094)                 \* 0x20746d66 "fmt "
                     \o setUint32(16)
                     \o setUint16(1)
                     \o setUint16(numOfChan)
                     \o setUint32(abuffer.sampleRate)
                     \o setUint32(abuffer.sampleRate * 2 * numOfChan)
                     \o setUint16(numOfChan * 2)
                     \o setUint16(16)
                     \o setUint32(1635017060)                \* 0x61746164 "data"
    IN  writeInterleaved(header \o setUint32(length - Len(header) - 4),
                         abuffer.channels, 0, length)

\* wavesurfer.loadBlob: the decoding of a 16-bit PCM WAV, sample = int16 / 32768
uint16At(bytes, pos) ==
    bytes[pos + 1] + 256 * bytes[pos + 2]

uint32At(bytes, pos) ==
    uint16At(bytes, pos) + 65536 * uint16At(bytes, pos + 2)

int16At(bytes, pos) ==
    IF uint16At(bytes, pos) >= 32768 THEN uint16At(bytes, pos) - 65536 ELSE uint16At(bytes, pos)

decodeWave(bytes) ==
    LET numOfChan == uint16At(bytes, 22)
        frames    == uint32At(bytes, 40) \div (numOfChan * 2)
    IN  [sampleRate |-> uint32At(bytes, 24), numberOfChannels |-> numOfChan, length |-> frames,
         channels |-> [i \in 1..numOfChan |->
                          [j \in 1..frames |->
                              int16At(bytes, 44 + ((j - 1) * numOfChan + (i - 1)) * 2)
                                  * (SampleUnit \div 32768)]]]

\* ------------------------------------------------------------ the system
idsOf(carts) ==
    {carts[k].id : k \in 1..Len(carts)}

FileLists ==
    UNION {[1..n -> Files] : n \in 1..MaxFiles}

\* file lists none of whose files has readable metadata
SilentFileLists ==
    {files \in FileLists : \A k \in 1..Len(files) : ~files[k].loads}

\* the buffers a dropped or recorded file can decode to: every length, channel
\* count and sample rate, the samples running through FileSamples from any of
\* its values on, the second channel two samples ahead of the first
DecodedBuffers ==
    {[sampleRate |-> r, numberOfChannels |-> c, length |-> n,
      channels |-> [i \in 1..c |->
                       [j \in 1..n |->
                           FileSamples[((phase + 2 * i + j) % Len(FileSamples)) + 1]]]] :
        r \in SampleRates, c \in ChannelCounts, n \in 1..MaxFrames,
        phase \in 1..Len(FileSamples)}

\* the regions a drag selection can make on the waveform of decodedBuffer
RegionsOf(decodedBuffer) ==
    {region \in [start : 0..(MaxFrames * TicksPerSecond), end : 0..(MaxFrames * TicksPerSecond)] :
        /\ region.start < region.end
        /\ region.end * decodedBuffer.sampleRate <= decodedBuffer.length * TicksPerSecond}

\* the editor after its first effect: nothing loaded, no region
InitEditor ==
    /\ decodedData = NoBuffer
    /\ loading = NoLoad
    /\ regionList = <<>>
    /\ hasRegion = FALSE
    /\ newBuffer = NoBuffer
    /\ wavBlob = NoBlob
    /\ alerted = FALSE

Init ==
    /\ stackState = [s \in STACKS |-> <<>>]
    /\ isPlaying = [s \in STACKS |-> FALSE]
    /\ playPending = [s \in STACKS |-> NullId]
    /\ probes = {}
    /\ drag = NoDrag
    /\ nextId = 1
    /\ appended = [s \in STACKS |-> {}]
    /\ InitEditor

\* File drop on a stack, or the editor's "add to stack": addFilesToStack(stackId, files)
AddFiles(stackId, files, cap) ==
    LET audioFiles == audioFilesOf(files)
        newCarts   == newCartsOf(audioFiles, nextId)
    IN  /\ drag = NoDrag
        /\ nextId + Len(audioFiles) - 1 <= cap
        /\ IF Len(audioFiles) = 0
           THEN UNCHANGED <<stackState, probes, nextId, appended>>
           ELSE /\ stackState' = addFilesToStack(stackState, stackId, newCarts)
                /\ probes' = probes \cup
                      {[stackId |-> stackId, cartId |-> newCarts[k].id] :
                          k \in {j \in 1..Len(newCarts) : audioFiles[j].loads}}
                /\ nextId' = nextId + Len(audioFiles)
                /\ appended' = [appended EXCEPT ![stackId] = @ \cup idsOf(newCarts)]
        /\ UNCHANGED <<isPlaying, playPending, drag>>
        /\ UNCHANGED editorVars

\* The metadata probe of one created cart completes with audio.duration = duration
LoadedMetadata(probe, duration) ==
    /\ probe \in probes
    /\ probes' = probes \ {probe}
    /\ stackState' = onloadedmetadata(stackState, probe.stackId, probe.cartId, duration)
    /\ UNCHANGED <<isPlaying, playPending, drag, nextId, appended>>
    /\ UNCHANGED editorVars

\* handleKeyDown for the stack's hotkey: stop when playing, else play carts[0]
HandleKeyDown(stackId) ==
    LET carts == stackState[stackId]
    IN  /\ drag = NoDrag
        /\ IF isPlaying[stackId]
           THEN \* stopCart(): audio.pause() rejects a pending play() promise
                /\ isPlaying' = [isPlaying EXCEPT ![stackId] = FALSE]
                /\ playPending' = [playPending EXCEPT ![stackId] = NullId]
                /\ stackState' = setStackCarts(stackState, stackId, stopCart(carts))
           ELSE IF Len(carts) = 0
           THEN UNCHANGED <<isPlaying, playPending, stackState>>
           ELSE \* playCart(carts[0]) up to `await audio.play()`; loading another
                \* source rejects the play() promise that was pending
                /\ playPending' = [playPending EXCEPT ![stackId] = carts[1].id]
                /\ UNCHANGED <<isPlaying, stackState>>
        /\ UNCHANGED <<probes, drag, nextId, appended>>
        /\ UNCHANGED editorVars

\* playCart after `await audio.play()` resolved
PlayStarted(stackId) ==
    LET carts  == stackState[stackId]
        cartId == playPending[stackId]
    IN  /\ cartId # NullId
        /\ playPending' = [playPending EXCEPT ![stackId] = NullId]
        /\ isPlaying' = [isPlaying EXCEPT ![stackId] = TRUE]
        /\ stackState' = setStackCarts(stackState, stackId, playCart(carts, cartId))
        /\ UNCHANGED <<probes, drag, nextId, appended>>
        /\ UNCHANGED editorVars

\* playCart when `await audio.play()` rejected: the catch block only logs
PlayFailed(stackId) ==
    /\ playPending[stackId] # NullId
    /\ playPending' = [playPending EXCEPT ![stackId] = NullId]
    /\ UNCHANGED <<stackState, isPlaying, probes, drag, nextId, appended>>
    /\ UNCHANGED editorVars

\* the audio element's 'ended' event; the element is playing exactly while isPlaying
HandleEnded(stackId) ==
    LET carts == stackState[stackId]
    IN  /\ isPlaying[stackId]
        /\ isPlaying' = [isPlaying EXCEPT ![stackId] = FALSE]
        /\ stackState' = setStackCarts(stackState, stackId, handleEnded(carts))
        /\ UNCHANGED <<playPending, probes, drag, nextId, appended>>
        /\ UNCHANGED editorVars

\* the re-activate button, rendered on played carts only
RequeueClick(stackId, k) ==
    LET carts == stackState[stackId]
    IN  /\ drag = NoDrag
        /\ k \in 1..Len(carts)
        /\ carts[k].status = "played"
        /\ stackState' = setStackCarts(stackState, stackId, requeueCart(carts, carts[k].id))
        /\ UNCHANGED <<isPlaying, playPending, probes, drag, nextId, appended>>
        /\ UNCHANGED editorVars

\* the remove button of a rendered cart
RemoveClick(stackId, k) ==
    LET carts == stackState[stackId]
    IN  /\ drag = NoDrag
        /\ k \in 1..Len(carts)
        /\ stackState' = setStackCarts(stackState, stackId, removeCart(carts, carts[k].id))
        /\ appended' = [appended EXCEPT ![stackId] = @ \ {carts[k].id}]
        /\ UNCHANGED <<isPlaying, playPending, probes, drag, nextId>>
        /\ UNCHANGED editorVars

\* onDragStart of a cart's drag handle: refused while the cart is playing
DragStart(stackId, k) ==
    LET carts == stackState[stackId]
    IN  /\ drag = NoDrag
        /\ k \in 1..Len(carts)
        /\ carts[k].status # "playing"
        /\ drag' = [cartId |-> carts[k].id, sourceStackId |-> stackId]
        /\ UNCHANGED <<stackState, isPlaying, playPending, probes, nextId, appended>>
        /\ UNCHANGED editorVars

\* onDragEnd without a drop on a stack
DragEnd ==
    /\ drag # NoDrag
    /\ drag' = NoDrag
    /\ UNCHANGED <<stackState, isPlaying, playPending, probes, nextId, appended>>
    /\ UNCHANGED editorVars

\* what a move request of cart `cartId` from `from` to `to` means for the history
appendedAfterMove(from, to, cartId) ==
    IF from # to /\ from \in DOMAIN appended /\ cartId \in appended[from]
    THEN [s \in DOMAIN appended |->
            IF s = from THEN appended[s] \ {cartId}
            ELSE IF s = to THEN appended[s] \cup {cartId}
            ELSE appended[s]]
    ELSE appended

\* a drop with the cart payload, on the list (targetId = null) or on cart targetId
dropPayload(stackId, targetId) ==
    IF drag.sourceStackId = stackId
    THEN IF targetId = NullId
         THEN setStackCarts(stackState, stackId,
                  moveCartWithinStack(stackState[stackId], drag.cartId, NullId))
         ELSE IF drag.cartId # NullId /\ drag.cartId # targetId
         THEN setStackCarts(stackState, stackId,
                  moveCartWithinStack(stackState[stackId], drag.cartId, targetId))
         ELSE stackState
    ELSE moveCartAcrossStacks(stackState, drag.sourceStackId, stackId, drag.cartId, targetId)

\* handleDrop: a cart dropped on the stack's list
HandleDrop(stackId) ==
    /\ drag # NoDrag
    /\ stackState' = dropPayload(stackId, NullId)
    /\ appended' = appendedAfterMove(drag.sourceStackId, stackId, drag.cartId)
    /\ drag' = NoDrag
    /\ UNCHANGED <<isPlaying, playPending, probes, nextId>>
    /\ UNCHANGED editorVars

\* a cart item's onDrop: a cart dropped on the rendered cart at position k
CartDrop(stackId, k) ==
    LET carts == stackState[stackId]
    IN  /\ drag # NoDrag
        /\ k \in 1..Len(carts)
        /\ stackState' = dropPayload(stackId, carts[k].id)
        /\ appended' = appendedAfterMove(drag.sourceStackId, stackId, drag.cartId)
        /\ drag' = NoDrag
        /\ UNCHANGED <<isPlaying, playPending, probes, nextId>>
        /\ UNCHANGED editorVars

\* every handler of the cart stacks except the file drop and the metadata probe
Handlers ==
    \/ \E s \in STACKS : HandleKeyDown(s)
    \/ \E s \in STACKS : PlayStarted(s)
    \/ \E s \in STACKS : PlayFailed(s)
    \/ \E s \in STACKS : HandleEnded(s)
    \/ \E s \in STACKS, k \in 1..MaxItems : RequeueClick(s, k)
    \/ \E s \in STACKS, k \in 1..MaxItems : RemoveClick(s, k)
    \/ \E s \in STACKS, k \in 1..MaxItems : DragStart(s, k)
    \/ DragEnd
    \/ \E s \in STACKS : HandleDrop(s)
    \/ \E s \in STACKS, k \in 1..MaxItems : CartDrop(s, k)

\* The cart stacks loaded with files whose metadata never loads.  No updater
\* reads a cart's duration, so the positions and statuses reached are those of
\* the full system.
Next ==
    \/ \E s \in STACKS, files \in SilentFileLists : AddFiles(s, files, MaxItems)
    \/ Handlers

Spec == Init /\ [][Next]_vars

\* The cart stacks where every playback that has started ends unless it is
\* stopped first: the audio element of a stack that is playing fires 'ended'.
SpecEnds == Spec /\ \A s \in STACKS : WF_vars(HandleEnded(s))

\* The cart stacks with the duration back-fill, for fewer carts.
NextProbe ==
    \/ \E s \in STACKS, files \in FileLists : AddFiles(s, files, MaxProbed)
    \/ \E probe \in probes, d \in 1..MaxDuration : LoadedMetadata(probe, d)
    \/ Handlers

SpecProbe == Init /\ [][NextProbe]_vars

\* File drops alone, with files that differ by name, so that the order in which
\* one drop's files arrive in a stack shows.
NamedFiles == [type : FileTypes, loads : {FALSE}, name : FileNames \cup {"jingle.wav"}]

NamedFileLists ==
    UNION {[1..n -> NamedFiles] : n \in 1..MaxFiles}

NextAddFiles ==
    \E s \in STACKS, files \in NamedFileLists : AddFiles(s, files, MaxAdded)

SpecAddFiles == Init /\ [][NextAddFiles]_vars

\* ------------------------------------------- the updaters, called directly
\* the stack ids a caller can pass: the three stacks and one that is not a stack
StackIds == STACKS \cup {"stack-x"}

\* the cart ids a caller can pass: null, the carts, and one id of no cart
CartIds == 0..(MaxCarts + 1)

\* sequences of distinct cart ids
IdSeqs ==
    {q \in UNION {[1..n -> 1..MaxCarts] : n \in 0..MaxCarts} :
        \A j, k \in 1..Len(q) : j # k => q[j] # q[k]}

\* what a cart holds besides its id and status: odd ids are carts as created,
\* even ids are carts that were retitled and whose duration was probed
CartFields(id) ==
    IF id % 2 = 1 THEN [title |-> "clip.wav", duration |-> 0]
    ELSE [title |-> "Untitled", duration |-> MaxDuration]

\* any carts in any order in the three stacks, every id in one place, each cart
\* queued, playing or played
InitUpdaters ==
    /\ \E a \in [STACKS -> IdSeqs], status \in [1..MaxCarts -> {"queued", "playing", "played"}] :
          /\ \A s, t \in STACKS :
                s # t => {a[s][k] : k \in 1..Len(a[s])} \cap {a[t][k] : k \in 1..Len(a[t])} = {}
          /\ stackState =
                [s \in STACKS |->
                    [k \in 1..Len(a[s]) |->
                        [id |-> a[s][k],
                         file |-> [type |-> "audio/wav", loads |-> FALSE, name |-> "clip.wav"],
                         title |-> CartFields(a[s][k]).title,
                         duration |-> CartFields(a[s][k]).duration,
                         status |-> status[a[s][k]]]]]
    /\ isPlaying = [s \in STACKS |-> FALSE]
    /\ playPending = [s \in STACKS |-> NullId]
    /\ probes = {}
    /\ drag = NoDrag
    /\ nextId = MaxCarts + 1
    /\ appended = [s \in STACKS |-> {}]
    /\ InitEditor

\* onMoveAcross(fromStackId, toStackId, cartId, targetId)
CallMoveCartAcrossStacks(fromStackId, toStackId, cartId, targetId) ==
    /\ stackState' = moveCartAcrossStacks(stackState, fromStackId, toStackId, cartId, targetId)
    /\ UNCHANGED <<isPlaying, playPending, probes, drag, nextId, appended>>
    /\ UNCHANGED editorVars

\* moveCartWithinStack(fromId, toId) of the CartStack of stackId
CallMoveCartWithinStack(stackId, fromId, toId) ==
    /\ stackState' = setStackCarts(stackState, stackId,
                          moveCartWithinStack(stackState[stackId], fromId, toId))
    /\ UNCHANGED <<isPlaying, playPending, probes, drag, nextId, appended>>
    /\ UNCHANGED editorVars

NextUpdaters ==
    \/ \E fromStackId \in StackIds, toStackId \in STACKS, cartId \in CartIds \ {NullId},
          targetId \in CartIds :
            CallMoveCartAcrossStacks(fromStackId, toStackId, cartId, targetId)
    \/ \E stackId \in STACKS, fromId \in CartIds \ {NullId}, toId \in CartIds :
            CallMoveCartWithinStack(stackId, fromId, toId)

SpecUpdaters == InitUpdaters /\ [][NextUpdaters]_vars

\* the remove button's updater run for cart `id` on the carts of stackId; two
\* clicks on one button before the list is rendered again run it twice
CallRemoveCart(stackId, id) ==
    /\ stackState' = setStackCarts(stackState, stackId, removeCart(stackState[stackId], id))
    /\ UNCHANGED <<isPlaying, playPending, probes, drag, nextId, appended>>
    /\ UNCHANGED editorVars

NextRemove ==
    \E stackId \in STACKS, id \in CartIds \ {NullId} : CallRemoveCart(stackId, id)

SpecRemove == InitUpdaters /\ [][NextRemove]_vars

\* ------------------------------------- drops of data from outside the page
\* What getData(CART_MIME) can hand a drop handler when the drag did not start
\* on a drag handle of this page: nothing, text that is not JSON, the JSON
\* null, or a JSON object, whose cartId and sourceStackId may be missing
\* (NullId, "undefined") or name no cart and no stack.
NoPayload == [kind |-> "empty"]
NotJson == [kind |-> "text"]
JsonNull == [kind |-> "null"]
Descriptors ==
    [kind : {"object"}, cartId : CartIds, sourceStackId : StackIds \cup {"undefined"}]
Payloads == {NoPayload, NotJson, JsonNull} \cup Descriptors

\* the drop handlers from getData on: `if (!payload) return`, then JSON.parse
\* and the move inside try/catch (JSON.parse throws on text that is not JSON,
\* data.sourceStackId throws on null)
droppedPayload(prev, payload, stackId, targetId) ==
    IF payload.kind # "object" THEN prev
    ELSE IF payload.sourceStackId = stackId
    THEN IF targetId = NullId \/ (payload.cartId # NullId /\ payload.cartId # targetId)
         THEN setStackCarts(prev, stackId,
                  moveCartWithinStack(prev[stackId], payload.cartId, targetId))
         ELSE prev
    ELSE moveCartAcrossStacks(prev, payload.sourceStackId, stackId, payload.cartId, targetId)

\* a drop on the list of stackId (targetId = null) or on its cart targetId,
\* while no cart of the page is being dragged
ForeignDrop(stackId, targetId, payload) ==
    /\ drag = NoDrag
    /\ targetId = NullId \/ findIndexById(stackState[stackId], targetId) # NotFound
    /\ stackState' = droppedPayload(stackState, payload, stackId, targetId)
    /\ UNCHANGED <<isPlaying, playPending, probes, drag, nextId, appended>>
    /\ UNCHANGED editorVars

NextDrops ==
    \E stackId \in STACKS, targetId \in CartIds, payload \in Payloads :
        ForeignDrop(stackId, targetId, payload)

SpecDrops == InitUpdaters /\ [][NextDrops]_vars

\* ------------------------------------------------------ the editor session
\* handleDrop / recorder.onstop -> loadAudio(blob) -> wavesurfer.load(url): the
\* decoded data is null until the load is ready; the regions are not touched.
\* An undecodable file is a load of NoBuffer.
LoadAudio(buffer) ==
    /\ loading' = [pending |-> TRUE, buffer |-> buffer]
    /\ decodedData' = NoBuffer
    /\ newBuffer' = NoBuffer
    /\ wavBlob' = NoBlob
    /\ alerted' = FALSE
    /\ UNCHANGED <<regionList, hasRegion>>
    /\ UNCHANGED cartVars

\* wavesurfer finished the load in progress ('ready')
Ready ==
    /\ loading.pending
    /\ decodedData' = loading.buffer
    /\ loading' = NoLoad
    /\ newBuffer' = NoBuffer
    /\ wavBlob' = NoBlob
    /\ alerted' = FALSE
    /\ UNCHANGED <<regionList, hasRegion>>
    /\ UNCHANGED cartVars

\* r.remove() for the regions at the positions `gone`
RECURSIVE removeRegions(_, _)
removeRegions(regions, gone) ==
    IF regions = <<>> THEN <<>>
    ELSE LET rest == removeRegions(SubSeq(regions, 1, Len(regions) - 1), gone)
         IN  IF Len(regions) \in gone THEN rest ELSE Append(rest, regions[Len(regions)])

\* mutant of regionCreated: the earlier regions are left on the waveform
regionCreatedKeepsOthers(regions, created) ==
    regions

\* the 'region-created' handler for the region at position `created`:
\* getRegions().forEach(r => { if (r.id !== region.id) r.remove() })
regionCreated(regions, created) ==
    removeRegions(regions, {k \in 1..Len(regions) : k # created})

\* a drag selection on the waveform: the plugin appends the region to its list
\* and emits 'region-created'; the 'region-removed' events of the handler find
\* the new region left, so hasRegion is only set
RegionCreated(region) ==
    /\ decodedData # NoBuffer
    /\ ~loading.pending
    /\ region \in RegionsOf(decodedData)
    /\ regionList' = regionCreated(Append(regionList, region), Len(regionList) + 1)
    /\ hasRegion' = TRUE
    /\ newBuffer' = NoBuffer
    /\ wavBlob' = NoBlob
    /\ alerted' = FALSE
    /\ UNCHANGED <<decodedData, loading>>
    /\ UNCHANGED cartVars

\* a handler that returns, or throws, before it produced or changed anything
nothingDone ==
    /\ newBuffer' = NoBuffer
    /\ wavBlob' = NoBlob
    /\ alerted' = FALSE
    /\ UNCHANGED <<decodedData, loading, regionList, hasRegion>>

\* mutant of nothingToCut: only a negative cut length is refused
nothingToCutNegativeOnly(cutLength) ==
    cutLength < 0

\* rippleDeleteSelection, line 288: if (cutLength <= 0) return
nothingToCut(cutLength) ==
    cutLength <= 0

\* mutant of clearSelection: the waveform is emptied but the regions stay
clearSelectionKeepsRegions ==
    /\ hasRegion' = FALSE
    /\ decodedData' = EmptyBuffer
    /\ newBuffer' = NoBuffer
    /\ wavBlob' = NoBlob
    /\ alerted' = FALSE
    /\ UNCHANGED <<loading, regionList>>

\* rippleDeleteSelection, lines 290-293: every region is removed (each removal
\* fires 'region-removed'), hasRegion is cleared and the waveform is emptied
clearSelection ==
    /\ regionList' = <<>>
    /\ hasRegion' = FALSE
    /\ decodedData' = EmptyBuffer
    /\ newBuffer' = NoBuffer
    /\ wavBlob' = NoBlob
    /\ alerted' = FALSE
    /\ UNCHANGED loading

\* rippleDeleteSelection with a region and a decoded buffer, lines 284-316
rippleDeleteSelection ==
    LET region        == regionList[1]
        decodedBuffer == decodedData
        startSample   == floorSamples(region.start, decodedBuffer.sampleRate)
        endSample     == floorSamples(region.end, decodedBuffer.sampleRate)
        cutLength     == endSample - startSample
    IN  IF nothingToCut(cutLength)
        THEN nothingDone
        ELSE IF cutLength >= decodedBuffer.length
        THEN clearSelection
        ELSE IF rippleThrows(decodedBuffer, startSample, endSample)
        THEN nothingDone
        ELSE LET created == rippleDelete(decodedBuffer, startSample, endSample)
                 blob    == bufferToWave(created, created.length)
             IN  /\ newBuffer' = created
                 /\ regionList' = <<>>
                 /\ hasRegion' = FALSE
                 /\ wavBlob' = blob
                 /\ alerted' = FALSE
                 /\ loading' = [pending |-> TRUE, buffer |-> decodeWave(blob)]
                 /\ decodedData' = NoBuffer

\* handleDelete: the Delete or Backspace key, then rippleDeleteSelection
HandleDelete ==
    /\ IF ~hasRegion \/ Len(regionList) = 0 \/ decodedData = NoBuffer
       THEN nothingDone
       ELSE rippleDeleteSelection
    /\ UNCHANGED cartVars

\* mutant of exportSelectionBlob: without a region the whole buffer is exported
exportSelectionBlobWholeBuffer(regions, decodedBuffer) ==
    IF decodedBuffer = NoBuffer THEN NoBuffer
    ELSE IF Len(regions) = 0 THEN decodedBuffer
    ELSE extractRegion(decodedBuffer, regions[1])

\* exportSelectionBlob, lines 243-255: null (NoBuffer) without a region or
\* without decoded data, else the extraction of getRegions()[0]
exportSelectionBlob(regions, decodedBuffer) ==
    IF Len(regions) = 0 \/ decodedBuffer = NoBuffer THEN NoBuffer
    ELSE extractRegion(decodedBuffer, regions[1])

\* what saveSelection and addSelectionToStack do to the editor: the blob of the
\* selection, or the alert when there is none
exportOrAlert(extracted) ==
    /\ newBuffer' = extracted
    /\ wavBlob' = IF extracted = NoBuffer THEN NoBlob
                  ELSE bufferToWave(extracted, extracted.length)
    /\ alerted' = (extracted = NoBuffer)
    /\ UNCHANGED <<decodedData, loading, regionList, hasRegion>>

\* saveSelection: exportSelectionBlob, then the download of the blob, or the alert
saveSelection ==
    /\ exportOrAlert(exportSelectionBlob(regionList, decodedData))
    /\ UNCHANGED cartVars

\* the SAVE SELECTION button, disabled without a region
SaveSelection ==
    /\ hasRegion
    /\ saveSelection

\* the File made of the blob: new File([wavBlob], `clip_${Date.now()}.wav`, {type: 'audio/wav'})
ClipFile == [type |-> "audio/wav", loads |-> TRUE, name |-> "clip_now.wav"]

\* addSelectionToStack with the stack chosen in the select element:
\* exportSelectionBlob, then onAddSelection(selectedStackId, file), or the alert
addSelectionToStack(selectedStackId) ==
    LET extracted == exportSelectionBlob(regionList, decodedData)
        newCarts  == newCartsOf(audioFilesOf(<<ClipFile>>), nextId)
    IN  /\ exportOrAlert(extracted)
        /\ IF extracted = NoBuffer
           THEN UNCHANGED cartVars
           ELSE /\ nextId <= MaxClips
                /\ stackState' = addFilesToStack(stackState, selectedStackId, newCarts)
                /\ probes' = probes \cup
                      {[stackId |-> selectedStackId, cartId |-> newCarts[k].id] :
                          k \in 1..Len(newCarts)}
                /\ nextId' = nextId + Len(newCarts)
                /\ appended' = [appended EXCEPT ![selectedStackId] = @ \cup idsOf(newCarts)]
                /\ UNCHANGED <<isPlaying, playPending, drag>>

NextEditor ==
    \/ \E buffer \in DecodedBuffers \cup {NoBuffer} : LoadAudio(buffer)
    \/ Ready
    \/ \E region \in RegionsOf(decodedData) : RegionCreated(region)
    \/ HandleDelete
    \/ SaveSelection

SpecEditor == Init /\ [][NextEditor]_vars

\* The editor with its two export handlers called whatever the buttons show:
\* the buttons are disabled while hasRegion is false, the handlers are not.
NextEditorCalls ==
    \/ \E buffer \in DecodedBuffers \cup {NoBuffer} : LoadAudio(buffer)
    \/ Ready
    \/ \E region \in RegionsOf(decodedData) : RegionCreated(region)
    \/ HandleDelete
    \/ saveSelection
    \/ \E selectedStackId \in STACKS : addSelectionToStack(selectedStackId)

SpecEditorCalls == Init /\ [][NextEditorCalls]_vars

\* ------------------------------------------------------------ properties
\* positions of the playing carts of one stack
playingAt(carts) ==
    {k \in 1..Len(carts) : carts[k].status = "playing"}

\* the places <<stack, position>> at which cart `id` occurs in `st`
placesOf(st, id) ==
    {p \in UNION {{<<s, k>> : k \in 1..Len(st[s])} : s \in DOMAIN st} :
        st[p[1]][p[2]].id = id}

\* the status of cart `id` wherever it is in `st`, "none" when it is nowhere
statusOf(st, id) ==
    LET found == UNION {{st[s][k].status : k \in {j \in 1..Len(st[s]) : st[s][j].id = id}} :
                        s \in DOMAIN st}
    IN  IF found = {} THEN "none" ELSE CHOOSE status \in found : TRUE

CreatedIds == 1..(nextId - 1)

\* the step is a drop of the dragged cart on stack s that inserts the cart
DropInserts(s) ==
    /\ drag # NoDrag
    /\ drag.cartId \in idsOf(stackState[drag.sourceStackId])
    /\ \/ HandleDrop(s)
       \/ \E k \in 1..Len(stackState[s]) :
             /\ drag.sourceStackId # s \/ stackState[s][k].id # drag.cartId
             /\ CartDrop(s, k)
    /\ drag.cartId \in idsOf(stackState'[s])

\* C1 as claimed: at most one cart across all stacks is playing.
C1_AtMostOnePlayingAcrossStacks ==
    Cardinality({p \in UNION {{<<s, k>> : k \in playingAt(stackState[s])} : s \in STACKS} :
                    TRUE}) <= 1

\* C1 amended: playback is exclusive per activation, not across stacks: when a
\* playback start completes on a stack, no cart of that stack other than the
\* activated one is playing afterwards, and the other stacks are left as they were.
C1_ActivationLeavesOnePlayingInItsStack ==
    [][\A s \in STACKS :
          PlayStarted(s) =>
            /\ \A k \in playingAt(stackState'[s]) : stackState'[s][k].id = playPending[s]
            /\ \A t \in STACKS \ {s} : stackState'[t] = stackState[t]]_vars

\* C1 witness: two stacks are on air at once, each with a playing cart.
C1_TwoStacksPlaying ==
    \E s, t \in STACKS :
        /\ s # t
        /\ isPlaying[s] /\ isPlaying[t]
        /\ playingAt(stackState[s]) # {} /\ playingAt(stackState[t]) # {}

\* C2 as claimed: every stack always holds at most one playing cart, and one
\* activation turns at most one cart of its stack from playing to played.
C2_AtMostOnePlayingPerStack ==
    [][/\ \A s \in STACKS : Cardinality(playingAt(stackState'[s])) <= 1
       /\ \A s \in STACKS :
            PlayStarted(s) =>
              Cardinality({k \in playingAt(stackState[s]) :
                              stackState'[s][k].status = "played"}) <= 1]_vars

\* C3: every cart that was added and not removed occurs exactly once over all
\* stacks, and no other id occurs at all; a cross-stack move is one step, so the
\* moved cart is never in neither stack or in both.
C3_EachCartInExactlyOneStack ==
    /\ \A id \in UNION {appended[s] : s \in STACKS} :
          Cardinality(placesOf(stackState, id)) = 1
    /\ \A s \in STACKS : idsOf(stackState[s]) \subseteq UNION {appended[t] : t \in STACKS}
    /\ UNION {appended[s] : s \in STACKS} \subseteq CreatedIds

\* C3 witness: a cross-stack drop is about to take the dragged cart out of its
\* stack and put it into another.
C3_CrossStackMoveHappens ==
    \E s \in STACKS :
        ENABLED (/\ DropInserts(s)
                 /\ drag.sourceStackId # s
                 /\ drag.cartId \notin idsOf(stackState'[drag.sourceStackId]))

\* C4: a stack never holds an id twice, and its ids are exactly the ids put into
\* it (appended, or moved in) and not taken out again (removed, or moved away).
C4_StackIdsAreAppendedAndNotRemoved ==
    \A s \in STACKS :
        /\ Cardinality(idsOf(stackState[s])) = Len(stackState[s])
        /\ idsOf(stackState[s]) = appended[s]

\* C4 witness: a reorder is about to change a stack of at least two carts.
C4_ReorderHappens ==
    \E s \in STACKS :
        /\ Len(stackState[s]) >= 2
        /\ ENABLED (/\ DropInserts(s)
                    /\ drag.sourceStackId = s
                    /\ stackState'[s] # stackState[s])

\* C5: a reorder or cross-stack move that inserts a played cart at position 0
\* makes it queued; inserted elsewhere, or not played before, it keeps its status.
C5_AutoRequeue ==
    [][\A s \in STACKS :
          DropInserts(s) =>
            LET id  == drag.cartId
                pre == statusOf(stackState, id)
                pos == CHOOSE k \in 1..Len(stackState'[s]) : stackState'[s][k].id = id
            IN  stackState'[s][pos].status =
                    IF pos = 1 /\ pre = "played" THEN "queued" ELSE pre]_vars

\* C5 witness: a played cart is about to be dropped at position 0 and requeued.
C5_PlayedCartMovedToTop ==
    \E s \in STACKS :
        /\ statusOf(stackState, drag.cartId) = "played"
        /\ ENABLED (/\ DropInserts(s)
                    /\ stackState'[s][1].id = drag.cartId
                    /\ stackState'[s][1].status = "queued")

\* the step stops stack s by its hotkey
HotkeyStops(s) ==
    HandleKeyDown(s) /\ isPlaying[s]

\* carts with the cart at position p taken out, marked played and put last
sunk(carts, p) ==
    [k \in 1..Len(carts) |->
        IF k < p THEN carts[k]
        ELSE IF k < Len(carts) THEN carts[k + 1]
        ELSE [carts[p] EXCEPT !.status = "played"]]

\* the ids of the carts of `carts` other than `id`, in order
othersOf(carts, id) ==
    LET other(c) == c.id # id
        rest == SelectSeq(carts, other)
    IN  [k \in 1..Len(rest) |-> rest[k].id]

\* C6 as claimed: an activation in a stack where another cart is playing leaves
\* the activated cart playing and puts the demoted cart, marked played, at the
\* last position, all other carts keeping their order.
C6_DemotedCartSinksOnActivation ==
    [][\A s \in STACKS :
          (/\ PlayStarted(s)
           /\ playPending[s] \in idsOf(stackState[s])
           /\ \E k \in playingAt(stackState[s]) : stackState[s][k].id # playPending[s])
          =>
            LET carts == stackState[s]
                after == stackState'[s]
                d     == CHOOSE k \in playingAt(carts) : carts[k].id # playPending[s]
            IN  /\ statusOf(stackState', playPending[s]) = "playing"
                /\ after[Len(after)].id = carts[d].id
                /\ after[Len(after)].status = "played"
                /\ othersOf(after, carts[d].id) = othersOf(carts, carts[d].id)]_vars

\* C7: the hotkey stop and the ended event turn the first playing cart of the
\* stack into played and put it last, the other carts keeping order and fields;
\* with no playing cart the stack is as before; other stacks are not touched.
C7_StopAndEndedSinkThePlayingCart ==
    [][\A s \in STACKS :
          (HotkeyStops(s) \/ HandleEnded(s)) =>
            /\ \A t \in STACKS \ {s} : stackState'[t] = stackState[t]
            /\ IF playingAt(stackState[s]) = {}
               THEN stackState'[s] = stackState[s]
               ELSE LET p == CHOOSE k \in playingAt(stackState[s]) :
                                \A j \in playingAt(stackState[s]) : k <= j
                    IN  stackState'[s] = sunk(stackState[s], p)]_vars

\* C7 witness: a stack of two carts whose first cart is playing is about to be
\* stopped or to end, which puts that cart last.
C7_PlayingCartAboutToSink ==
    \E s \in STACKS :
        /\ Len(stackState[s]) >= 2
        /\ stackState[s][1].status = "playing"
        /\ ENABLED (/\ HotkeyStops(s) \/ HandleEnded(s)
                    /\ stackState'[s][Len(stackState'[s])].id = stackState[s][1].id
                    /\ stackState'[s][Len(stackState'[s])].status = "played")

\* the status changes the step makes to carts that exist before and after it
statusChanges ==
    UNION {UNION {{<<stackState[s][k].status, stackState'[t][j].status>> :
                      j \in {i \in 1..Len(stackState'[t]) :
                               /\ stackState'[t][i].id = stackState[s][k].id
                               /\ stackState'[t][i].status # stackState[s][k].status}} :
                  t \in STACKS, k \in 1..Len(stackState[s])} :
           s \in STACKS}

noPaused(st) ==
    \A s \in STACKS : \A k \in 1..Len(st[s]) : st[s][k].status # "paused"

\* C8 as claimed: every status change is queued -> playing, playing -> played or
\* played -> queued, and no cart is ever paused.
C8_OnlyThreeTransitions ==
    [][/\ statusChanges \subseteq
            {<<"queued", "playing">>, <<"playing", "played">>, <<"played", "queued">>}
       /\ noPaused(stackState')]_vars

\* C8 amended: every status change is queued -> playing, played -> playing (the
\* hotkey plays the top cart even if it was played), playing -> played or
\* played -> queued; never playing -> queued; and no cart is ever paused.
C8_OnlyFourTransitions ==
    [][/\ statusChanges \subseteq
            {<<"queued", "playing">>, <<"played", "playing">>,
             <<"playing", "played">>, <<"played", "queued">>}
       /\ noPaused(stackState')]_vars

\* C8 witness: the playback start of a played cart is about to make it playing.
C8_PlayedCartAboutToPlay ==
    \E s \in STACKS :
        /\ playPending[s] # NullId
        /\ statusOf(stackState, playPending[s]) = "played"
        /\ ENABLED (PlayStarted(s) /\ statusOf(stackState', playPending[s]) = "playing")

C10_BackFillFollowsTheCart ==
    [][\A probe \in probes, d \in 1..MaxDuration :
          (LoadedMetadata(probe, d) /\ placesOf(stackState, probe.cartId) # {}) =>
            \A p \in placesOf(stackState', probe.cartId) :
                stackState'[p[1]][p[2]].duration = d]_vars

\* C11: moveCartAcrossStacks leaves every stack as it was when fromStackId equals
\* toStackId, or when cartId is no cart of fromStackId, also for a fromStackId
\* that is no stack: a step that changes a stack is no such call.
C11_MoveAcrossNoOp ==
    [][\/ stackState' = stackState
       \/ \A from \in StackIds, to \in STACKS, cartId \in CartIds \ {NullId},
             targetId \in CartIds :
               ~(/\ from = to \/ cartId \notin idsOf(cartsOf(stackState, from))
                 /\ CallMoveCartAcrossStacks(from, to, cartId, targetId))]_vars

\* C11 witness: a cart of one stack can be asked to move out of another stack
\* that holds carts, out of no stack at all, and out of and into its own stack.
C11_NoOpMoveRequested ==
    \E from, to \in STACKS, cartId \in CartIds \ {NullId} :
        /\ from # to
        /\ Len(stackState[from]) > 0
        /\ cartId \in idsOf(stackState[to])
        /\ ENABLED CallMoveCartAcrossStacks(from, to, cartId, NullId)
        /\ ENABLED CallMoveCartAcrossStacks("stack-x", from, cartId, NullId)
        /\ ENABLED CallMoveCartAcrossStacks(to, to, cartId, NullId)

\* the carts of `carts` other than the cart `id`, in order
without(carts, id) ==
    LET other(c) == c.id # id IN SelectSeq(carts, other)

\* the cart `id` of `carts`
cartOf(carts, id) ==
    carts[CHOOSE k \in 1..Len(carts) : carts[k].id = id]

\* C12: a moveCartAcrossStacks that finds the cart takes it out of fromStackId and
\* puts it once into toStackId with its id, title, duration and file, its status
\* kept or reset to queued; the other carts of both stacks keep their fields and
\* order, and the third stack is not touched.
C12_MoveAcrossFrame ==
    [][\A from, to \in STACKS, cartId \in CartIds \ {NullId}, targetId \in CartIds :
          (/\ from # to
           /\ cartId \in idsOf(stackState[from])
           /\ CallMoveCartAcrossStacks(from, to, cartId, targetId))
          =>
            /\ DOMAIN stackState' = DOMAIN stackState
            /\ Len(stackState'[to]) = Len(stackState[to]) + 1
            /\ cartId \in idsOf(stackState'[to])
            /\ LET moved  == cartOf(stackState[from], cartId)
                   landed == cartOf(stackState'[to], cartId)
               IN  /\ landed.id = moved.id
                   /\ landed.title = moved.title
                   /\ landed.duration = moved.duration
                   /\ landed.file = moved.file
                   /\ landed.status \in {moved.status, "queued"}
            /\ stackState'[from] = without(stackState[from], cartId)
            /\ without(stackState'[to], cartId) = stackState[to]
            /\ \A t \in STACKS \ {from, to} : stackState'[t] = stackState[t]]_vars

\* C12 witness: a retitled, probed cart is about to move into a stack that
\* holds another cart.
C12_FullCartAboutToMove ==
    \E from, to \in STACKS, cartId \in CartIds \ {NullId} :
        /\ from # to
        /\ Len(stackState[to]) >= 1
        /\ cartId \in idsOf(stackState[from])
        /\ cartOf(stackState[from], cartId).title = "Untitled"
        /\ cartOf(stackState[from], cartId).duration > 0
        /\ ENABLED (/\ CallMoveCartAcrossStacks(from, to, cartId, NullId)
                    /\ cartId \in idsOf(stackState'[to]))

\* C13: moveCartWithinStack(fromId, toId) on a stack that holds fromId puts the
\* cart immediately before toId when toId is another cart of the stack, and last
\* when toId is null or no cart of the stack; the other carts keep their order;
\* the stack is as before when fromId equals toId or is no cart of the stack.
C13_ReorderPlacesBeforeTargetOrLast ==
    [][\A s \in STACKS, fromId \in CartIds \ {NullId}, toId \in CartIds :
          CallMoveCartWithinStack(s, fromId, toId) =>
            LET before == stackState[s]
                after  == stackState'[s]
            IN  IF fromId = toId \/ fromId \notin idsOf(before)
                THEN stackState' = stackState
                ELSE /\ Len(after) = Len(before)
                     /\ othersOf(after, fromId) = othersOf(before, fromId)
                     /\ IF toId \in idsOf(before)
                        THEN \E k \in 1..(Len(after) - 1) :
                                after[k].id = fromId /\ after[k + 1].id = toId
                        ELSE after[Len(after)].id = fromId]_vars

\* C13 witness: in a stack of two carts the first is about to be put last and
\* the second is about to be put before the first.
C13_ReorderBothWays ==
    \E s \in STACKS :
        /\ Len(stackState[s]) = 2
        /\ ENABLED (/\ CallMoveCartWithinStack(s, stackState[s][1].id, NullId)
                    /\ stackState'[s][2].id = stackState[s][1].id)
        /\ ENABLED (/\ CallMoveCartWithinStack(s, stackState[s][2].id, stackState[s][1].id)
                    /\ stackState'[s][1].id = stackState[s][2].id)

\* the Delete key reaches rippleDeleteSelection with a region and a decoded buffer
DeleteReachesCut ==
    /\ hasRegion
    /\ Len(regionList) > 0
    /\ decodedData # NoBuffer

startSampleNow == floorSamples(regionList[1].start, decodedData.sampleRate)
endSampleNow == floorSamples(regionList[1].end, decodedData.sampleRate)
cutLengthNow == endSampleNow - startSampleNow

\* the channels left of the mono buffer [1,2,3,4,5] by a cut of [1,3)
CutOfFive ==
    rippleDelete([sampleRate |-> 1, numberOfChannels |-> 1, length |-> 5,
                  channels |-> << <<1, 2, 3, 4, 5>> >>], 1, 3).channels

\* C14: a ripple delete of a region of the decoded buffer with 0 < cutLength <
\* frameCount makes a new buffer of frameCount - cutLength frames with the same
\* sample rate and channel count, each channel being the samples before
\* startSample followed by the samples from endSample on; [a,b,c,d,e] cut at
\* [1,3) gives [a,d,e]; the result is a new buffer, the decoded one is only read.
C14_RippleDeleteSplices ==
    [][/\ CutOfFive = << <<1, 4, 5>> >>
       /\ (/\ DeleteReachesCut
           /\ 0 < cutLengthNow
           /\ cutLengthNow < decodedData.length
           /\ endSampleNow <= decodedData.length
           /\ HandleDelete)
          =>
            /\ newBuffer'.length = decodedData.length - cutLengthNow
            /\ newBuffer'.sampleRate = decodedData.sampleRate
            /\ newBuffer'.numberOfChannels = decodedData.numberOfChannels
            /\ Len(newBuffer'.channels) = decodedData.numberOfChannels
            /\ \A i \in 1..decodedData.numberOfChannels :
                  /\ Len(newBuffer'.channels[i]) = decodedData.length - cutLengthNow
                  /\ \A j \in 1..(decodedData.length - cutLengthNow) :
                        newBuffer'.channels[i][j] =
                            IF j <= startSampleNow
                            THEN decodedData.channels[i][j]
                            ELSE decodedData.channels[i][j + cutLengthNow]]_vars

\* C14 witness: the Delete key is about to cut the middle out of a stereo buffer
\* whose samples before and after the cut differ.
C14_MiddleCutAboutToHappen ==
    /\ DeleteReachesCut
    /\ decodedData.numberOfChannels = 2
    /\ 0 < startSampleNow
    /\ startSampleNow < endSampleNow
    /\ endSampleNow < decodedData.length
    /\ decodedData.channels[1][1] # decodedData.channels[1][decodedData.length]
    /\ ENABLED (HandleDelete /\ newBuffer'.length = decodedData.length - cutLengthNow)

\* the unsigned little-endian number held by `count` bytes from 0-based offset `first`
RECURSIVE littleEndian(_, _, _)
littleEndian(bytes, first, count) ==
    IF count = 0 THEN 0
    ELSE bytes[first + 1] + 256 * littleEndian(bytes, first + 1, count - 1)

\* the bytes from 0-based offset `first` are these ASCII codes
asciiAt(bytes, first, codes) ==
    \A k \in 1..Len(codes) : bytes[first + k] = codes[k]

\* bytes is a WAV of frameCount frames, numOfChan channels at sampleRate, by its
\* length and by the 44 bytes of its header
wavHeaderOk(bytes, frameCount, numOfChan, sampleRate) ==
    /\ Len(bytes) = frameCount * numOfChan * 2 + 44
    /\ \A k \in 1..Len(bytes) : bytes[k] \in 0..255
    /\ asciiAt(bytes, 0, <<82, 73, 70, 70>>)
    /\ littleEndian(bytes, 4, 4) = Len(bytes) - 8
    /\ asciiAt(bytes, 8, <<87, 65, 86, 69>>)
    /\ asciiAt(bytes, 12, <<102, 109, 116, 32>>)
    /\ littleEndian(bytes, 16, 4) = 16
    /\ littleEndian(bytes, 20, 2) = 1
    /\ littleEndian(bytes, 22, 2) = numOfChan
    /\ littleEndian(bytes, 24, 4) = sampleRate
    /\ littleEndian(bytes, 28, 4) = sampleRate * 2 * numOfChan
    /\ littleEndian(bytes, 32, 2) = numOfChan * 2
    /\ littleEndian(bytes, 34, 2) = 16
    /\ asciiAt(bytes, 36, <<100, 97, 116, 97>>)
    /\ littleEndian(bytes, 40, 4) = frameCount * numOfChan * 2

\* the WAV of 10 silent stereo frames at 8000 Hz
TenStereoFrames ==
    bufferToWave(createBuffer(2, 10, 8000), 10)

TenStereoFramesOk ==
    wavHeaderOk(TenStereoFrames, 10, 2, 8000)

\* C15: every WAV the editor produces, for a download or for the reload after a
\* ripple delete, has frameCount * channels * 2 + 44 bytes and the 44-byte
\* little-endian header of its buffer; 2 channels, 8000 Hz, 10 frames give 84 bytes.
C15_WavLengthAndHeader ==
    [][/\ Len(TenStereoFrames) = 84
       /\ TenStereoFramesOk
       /\ ((SaveSelection \/ HandleDelete) /\ wavBlob' # NoBlob)
          => wavHeaderOk(wavBlob', newBuffer'.length, newBuffer'.numberOfChannels,
                         newBuffer'.sampleRate)]_vars

\* C15 witness: a selection of two or more frames of a stereo buffer is about to
\* be encoded for a download.
C15_StereoSelectionAboutToBeEncoded ==
    /\ hasRegion
    /\ decodedData.numberOfChannels = 2
    /\ ENABLED (/\ SaveSelection
                /\ wavBlob' # NoBlob
                /\ newBuffer'.length >= 2
                /\ newBuffer'.numberOfChannels = 2)

\* the ids of the carts of `carts` that are playing
playingIds(carts) ==
    {carts[k].id : k \in playingAt(carts)}

\* C16 as claimed: the hotkey on a non-empty stack that is not playing requests
\* the playback of the cart at position 0 whatever its status, and once that
\* playback has started the cart, if it is still in some stack, is playing and no
\* other cart of the stack has become playing; on a playing stack the hotkey
\* stops, and starts nothing; on an empty stack it changes nothing.
C16_HotkeyActivatesTheTopCart ==
    [][\A s \in STACKS :
          /\ (HandleKeyDown(s) /\ ~isPlaying[s] /\ Len(stackState[s]) > 0) =>
                /\ playPending'[s] = stackState[s][1].id
                /\ stackState' = stackState
          /\ (HandleKeyDown(s) /\ ~isPlaying[s] /\ Len(stackState[s]) = 0) =>
                UNCHANGED vars
          /\ (HandleKeyDown(s) /\ isPlaying[s]) =>
                /\ ~isPlaying'[s]
                /\ playPending'[s] = NullId
                /\ playingIds(stackState'[s]) \subseteq playingIds(stackState[s])
          /\ PlayStarted(s) =>
                /\ statusOf(stackState', playPending[s]) \in {"playing", "none"}
                /\ playingIds(stackState'[s]) \ playingIds(stackState[s])
                      \subseteq {playPending[s]}]_vars

\* C17: a moveCartAcrossStacks that finds the cart inserts it into toStackId
\* immediately before the cart targetId, at that cart's former position, when
\* targetId is a cart of toStackId, and at the last position when targetId is
\* null or no cart of toStackId.
C17_MoveAcrossInsertsBeforeTargetOrLast ==
    [][\A from, to \in STACKS, cartId \in CartIds \ {NullId}, targetId \in CartIds :
          (/\ from # to
           /\ cartId \in idsOf(stackState[from])
           /\ CallMoveCartAcrossStacks(from, to, cartId, targetId))
          =>
            LET before == stackState[to]
                after  == stackState'[to]
            IN  IF targetId \in idsOf(before)
                THEN \E k \in 1..Len(before) :
                        /\ before[k].id = targetId
                        /\ after[k].id = cartId
                        /\ after[k + 1].id = targetId
                ELSE after[Len(after)].id = cartId]_vars

\* C17 witness: a cart is about to be put before the only cart of another stack,
\* and could as well be put after it by a null target.
C17_InsertBeforeAndAtTail ==
    \E from, to \in STACKS :
        /\ from # to
        /\ Len(stackState[from]) = 1
        /\ Len(stackState[to]) = 1
        /\ ENABLED (/\ CallMoveCartAcrossStacks(from, to, stackState[from][1].id,
                                                stackState[to][1].id)
                    /\ stackState'[to][1].id = stackState[from][1].id)
        /\ ENABLED (/\ CallMoveCartAcrossStacks(from, to, stackState[from][1].id, NullId)
                    /\ stackState'[to][2].id = stackState[from][1].id)

\* the whole number of samples in `ticks` of time at `sampleRate`: the n with
\* n <= seconds * sampleRate < n + 1
wholeSamples(ticks, sampleRate) ==
    CHOOSE n \in 0..(ticks * sampleRate) :
        /\ n * TicksPerSecond <= ticks * sampleRate
        /\ ticks * sampleRate < (n + 1) * TicksPerSecond

\* the frames exported for 1.0 s to 2.0 s of a 3 s mono buffer at 44100 Hz
SecondOfThree ==
    lengthOfRegion(createBuffer(1, 3 * 44100, 44100),
                   [start |-> TicksPerSecond, end |-> 2 * TicksPerSecond])

\* C18: an export converts the region to startSample = floor(start * sampleRate)
\* and endSample = floor(end * sampleRate); it yields nothing when endSample -
\* startSample <= 0, and otherwise a new buffer of endSample - startSample frames
\* with the channel count and sample rate of the decoded buffer, whose frame j is
\* frame startSample + j of the decoded buffer on every channel; 1.0 s to 2.0 s of
\* a 3 s mono buffer at 44100 Hz gives 44100 frames.
C18_ExtractRegionCopiesTheFrames ==
    [][/\ SecondOfThree = 44100
       /\ (DeleteReachesCut /\ SaveSelection) =>
            LET startSample == wholeSamples(regionList[1].start, decodedData.sampleRate)
                endSample   == wholeSamples(regionList[1].end, decodedData.sampleRate)
            IN  IF endSample - startSample <= 0
                THEN newBuffer' = NoBuffer /\ wavBlob' = NoBlob
                ELSE /\ newBuffer'.length = endSample - startSample
                     /\ newBuffer'.numberOfChannels = decodedData.numberOfChannels
                     /\ newBuffer'.sampleRate = decodedData.sampleRate
                     /\ Len(newBuffer'.channels) = decodedData.numberOfChannels
                     /\ \A i \in 1..decodedData.numberOfChannels :
                           /\ Len(newBuffer'.channels[i]) = endSample - startSample
                           /\ endSample <= decodedData.length =>
                                 \A j \in 1..(endSample - startSample) :
                                     newBuffer'.channels[i][j] =
                                         decodedData.channels[i][startSample + j]]_vars

\* C18 witness: a region that starts between two samples, after the first frame,
\* is about to be exported from a buffer whose first and last frames differ.
C18_OffGridRegionAboutToBeExported ==
    /\ DeleteReachesCut
    /\ (regionList[1].start * decodedData.sampleRate) % TicksPerSecond # 0
    /\ 0 < startSampleNow
    /\ endSampleNow <= decodedData.length
    /\ decodedData.channels[1][1] # decodedData.channels[1][decodedData.length]
    /\ ENABLED (SaveSelection /\ newBuffer'.length >= 1)

C20_NothingToCutIsNoOp ==
    [][(/\ HandleDelete
        /\ \/ ~hasRegion
           \/ Len(regionList) = 0
           \/ decodedData = NoBuffer
           \/ wholeSamples(regionList[1].end, decodedData.sampleRate)
                 - wholeSamples(regionList[1].start, decodedData.sampleRate) <= 0)
       =>
         /\ UNCHANGED <<decodedData, loading, regionList, hasRegion>>
         /\ newBuffer' = NoBuffer
         /\ wavBlob' = NoBlob]_vars

\* C20 witness: a region that lies within one sample of a buffer of two or more
\* frames is selected and the Delete key can be pressed.
C20_RegionWithinOneSample ==
    /\ DeleteReachesCut
    /\ decodedData.length >= 2
    /\ regionList[1].start < regionList[1].end
    /\ cutLengthNow = 0
    /\ ENABLED (HandleDelete /\ regionList' = regionList)

\* C21: the editor never holds more than one region, and a region created while
\* another exists replaces it: after the creation the new region is the only one
\* and the selection flag is on.
C21_AtMostOneRegion ==
    [][/\ Len(regionList) <= 1
       /\ Len(regionList') <= 1
       /\ \A region \in RegionsOf(decodedData) :
             RegionCreated(region) => regionList' = <<region>> /\ hasRegion']_vars

\* C21 witness: with one region on the waveform, a different region is about to
\* be created and to replace it.
C21_SecondRegionAboutToBeCreated ==
    /\ Len(regionList) = 1
    /\ \E region \in RegionsOf(decodedData) :
          /\ region # regionList[1]
          /\ ENABLED (RegionCreated(region) /\ regionList' = <<region>>)

\* the step is one of the two export handlers
ExportCalled ==
    saveSelection \/ \E selectedStackId \in STACKS : addSelectionToStack(selectedStackId)

truncatesTowardZero(q, sample, factor) ==
    LET magnitude == IF sample < 0 THEN -sample ELSE sample
        whole     == magnitude \div SampleUnit
        fraction  == magnitude % SampleUnit
        part      == (IF q < 0 THEN -q ELSE q) - whole * factor
    IN  /\ sample < 0 => q <= 0
        /\ sample >= 0 => q >= 0
        /\ 0 <= fraction * factor - part * SampleUnit
        /\ fraction * factor - part * SampleUnit < SampleUnit

\* q is the 16-bit value of `sample` by the quantization rule
quantizes(q, sample) ==
    LET clamped == IF sample < -SampleUnit THEN -SampleUnit
                   ELSE IF sample > SampleUnit THEN SampleUnit ELSE sample
    IN  /\ q \in -32768..32767
        /\ truncatesTowardZero(q, clamped, IF clamped < 0 THEN 32768 ELSE 32767)

\* the signed little-endian number held by the two bytes of sample `j` of
\* channel `i` in a WAV of numOfChan channels
sampleInWav(bytes, numOfChan, i, j) ==
    LET unsigned == littleEndian(bytes, 44 + ((j - 1) * numOfChan + (i - 1)) * 2, 2)
    IN  IF unsigned >= 32768 THEN unsigned - 65536 ELSE unsigned

\* the WAV of the mono samples -2.0, -1.0, 0, 1.0, 2.0
FiveLevels ==
    bufferToWave([sampleRate |-> 1, numberOfChannels |-> 1, length |-> 5,
                  channels |-> << <<-2 * SampleUnit, -SampleUnit, 0, SampleUnit,
                                    2 * SampleUnit>> >>], 5)

FiveLevelsQuantized ==
    [j \in 1..5 |-> sampleInWav(FiveLevels, 1, 1, j)] = <<-32768, -32768, 0, 32767, 32767>>

\* C23: every sample of every WAV the editor produces is the sample of its
\* buffer, when that is a number, clamped to [-1.0, 1.0], multiplied by 32768 when negative and by 32767
\* otherwise, truncated toward zero and stored as a signed 16-bit little-endian
\* number; -1.0 gives -32768, 0 gives 0, 1.0 gives 32767, and -2.0 and 2.0 give
\* what -1.0 and 1.0 give.
C23_SamplesAreQuantized ==
    [][/\ FiveLevelsQuantized
       /\ ((SaveSelection \/ HandleDelete) /\ wavBlob' # NoBlob) =>
             \A i \in 1..newBuffer'.numberOfChannels, j \in 1..newBuffer'.length :
                 newBuffer'.channels[i][j] # NaN =>
                     quantizes(sampleInWav(wavBlob', newBuffer'.numberOfChannels, i, j),
                               newBuffer'.channels[i][j])]_vars

\* C23 witness: a selection that holds a sample below -1.0, one above 1.0 and a
\* negative one whose product with 32768 is no integer is about to be encoded.
C23_ClippedAndFractionalSamplesAboutToBeEncoded ==
    /\ hasRegion
    /\ ENABLED (/\ SaveSelection
                /\ wavBlob' # NoBlob
                /\ \E j \in 1..newBuffer'.length : newBuffer'.channels[1][j] < -SampleUnit
                /\ \E j \in 1..newBuffer'.length : newBuffer'.channels[1][j] > SampleUnit
                /\ \E j \in 1..newBuffer'.length :
                      /\ newBuffer'.channels[1][j] < 0
                      /\ (-newBuffer'.channels[1][j]) % 2 = 1)

\* the positions of the audio sources of a drop
audioAt(files) ==
    {p \in 1..Len(files) : files[p].type # "text/plain"}

\* the position of the j-th audio source of a drop
nthAudio(files, j) ==
    CHOOSE p \in audioAt(files) : Cardinality({q \in audioAt(files) : q < p}) = j - 1

\* C24: addFilesToStack(stackId, files) with no audio file among `files` changes
\* nothing; otherwise the stack keeps its carts as they are and in place and
\* gets, behind them, one cart per audio file in the order of `files`, each with
\* that file and its name, status queued, duration 0 and an id that no cart and
\* no other new cart has; the other stacks are as before.
C24_AddFilesAppendsTheAudioFiles ==
    [][\A s \in STACKS, files \in NamedFileLists :
          AddFiles(s, files, MaxAdded) =>
            LET before == stackState[s]
                after  == stackState'[s]
                count  == Cardinality(audioAt(files))
            IN  IF count = 0
                THEN stackState' = stackState
                ELSE /\ \A t \in STACKS \ {s} : stackState'[t] = stackState[t]
                     /\ Len(after) = Len(before) + count
                     /\ \A k \in 1..Len(before) : after[k] = before[k]
                     /\ \A j \in 1..count :
                           LET cart == after[Len(before) + j]
                           IN  /\ cart.file = files[nthAudio(files, j)]
                               /\ cart.title = files[nthAudio(files, j)].name
                               /\ cart.status = "queued"
                               /\ cart.duration = 0
                               /\ \A t \in STACKS : cart.id \notin idsOf(stackState[t])
                               /\ \A i \in 1..count :
                                     i # j => after[Len(before) + i].id # cart.id]_vars

\* C24 witness: a stack that holds a cart is about to receive a drop of a text
\* file and an audio file, and could as well receive two audio files of
\* different names, which arrive in their order.
C24_MixedDropOnAFilledStack ==
    \E s \in STACKS :
        LET text   == [type |-> "text/plain", loads |-> FALSE, name |-> "clip.wav"]
            clip   == [type |-> "audio/wav", loads |-> FALSE, name |-> "clip.wav"]
            jingle == [type |-> "audio/wav", loads |-> FALSE, name |-> "jingle.wav"]
        IN  /\ Len(stackState[s]) = 1
            /\ ENABLED (/\ AddFiles(s, <<text, jingle>>, MaxAdded)
                        /\ Len(stackState'[s]) = 2
                        /\ stackState'[s][2].title = "jingle.wav")
            /\ ENABLED (/\ AddFiles(s, <<jingle, clip>>, MaxAdded)
                        /\ Len(stackState'[s]) = 3
                        /\ stackState'[s][2].title = "jingle.wav"
                        /\ stackState'[s][3].title = "clip.wav")

\* a descriptor that names a stack of the page and a cart that stack holds
resolvable(payload) ==
    /\ payload.kind = "object"
    /\ payload.sourceStackId \in STACKS
    /\ \E k \in 1..Len(stackState[payload.sourceStackId]) :
          stackState[payload.sourceStackId][k].id = payload.cartId

\* C25: a drop whose payload is not JSON, or is JSON without a cartId and a
\* sourceStackId that name a cart in a stack, changes no stack: every stack
\* holds the same carts in the same order with the same fields, and no stack's
\* isPlaying changes.
C25_UnresolvableDropChangesNothing ==
    [][\/ stackState' = stackState /\ isPlaying' = isPlaying
       \/ \A stackId \in STACKS, targetId \in CartIds, payload \in Payloads :
             ~(~resolvable(payload) /\ ForeignDrop(stackId, targetId, payload))]_vars

\* C25 witness: two stacks hold carts, and drops on a cart of the second are
\* about to arrive with text that is not JSON, with an object without fields,
\* with a cart of the first stack said to come from a stack the page does not
\* have, and with an id no cart has said to come from the first stack.
C25_UnresolvableDropsOnFilledStacks ==
    /\ Len(stackState["stack-a"]) >= 1
    /\ Len(stackState["stack-b"]) >= 1
    /\ \A payload \in
            {NotJson,
             [kind |-> "object", cartId |-> NullId, sourceStackId |-> "undefined"],
             [kind |-> "object", cartId |-> stackState["stack-a"][1].id,
              sourceStackId |-> "stack-x"],
             [kind |-> "object", cartId |-> MaxCarts + 1, sourceStackId |-> "stack-a"]} :
          /\ ~resolvable(payload)
          /\ ENABLED (/\ ForeignDrop("stack-b", stackState["stack-b"][1].id, payload)
                      /\ stackState' = stackState)

C27_RemoveDeletesExactlyThatCart ==
    [][\A stackId \in STACKS, id \in CartIds \ {NullId} :
          CallRemoveCart(stackId, id) =>
            LET before == stackState[stackId]
                after  == stackState'[stackId]
                held   == {k \in 1..Len(before) : before[k].id = id}
            IN  /\ \A t \in STACKS \ {stackId} : stackState'[t] = stackState[t]
                /\ held = {} => after = before
                /\ \A p \in held :
                      /\ Len(after) = Len(before) - 1
                      /\ \A k \in 1..(p - 1) : after[k] = before[k]
                      /\ \A k \in p..Len(after) : after[k] = before[k + 1]
                /\ removeCart(after, id) = after]_vars

\* C27 witness: a stack holds two carts and the upper one is about to be
\* removed, after which a second removal of it is a removal of an id the stack
\* does not hold.
C27_RemovalFromAStackOfTwo ==
    \E stackId \in STACKS :
        /\ Len(stackState[stackId]) = 2
        /\ ENABLED (/\ CallRemoveCart(stackId, stackState[stackId][1].id)
                    /\ stackState'[stackId] = <<stackState[stackId][2]>>)
        /\ ENABLED (/\ CallRemoveCart(stackId, MaxCarts + 1)
                    /\ stackState' = stackState)

\* the step is a drop of the dragged cart that changes some stack
DropTakesEffect ==
    /\ \E s \in STACKS : HandleDrop(s) \/ \E k \in 1..Len(stackState[s]) : CartDrop(s, k)
    /\ stackState' # stackState

\* C28 as claimed: whenever a drop reorders a stack or moves a cart to another
\* stack, the cart it moves is not playing at that moment, whatever drag
\* starts, playback starts, hotkey presses and drops came before.
C28_PlayingCartIsNeverRelocated ==
    [][DropTakesEffect => statusOf(stackState, drag.cartId) # "playing"]_vars

\* C30 as claimed: in every reachable state a stack's isPlaying is true exactly
\* when the stack holds a cart with status playing.
C30_IsPlayingAgreesWithTheStack ==
    \A s \in STACKS : isPlaying[s] <=> playingAt(stackState[s]) # {}

\* C29 as claimed: when every playback that has started ends or is stopped, a
\* cart that is playing is later played, or gone from the stacks.
C29_PlayingCartIsEventuallyPlayed ==
    \A id \in 1..MaxItems :
        (statusOf(stackState, id) = "playing")
            ~> (statusOf(stackState, id) \in {"played", "none"})

\* the write loop run on the 44 header bytes of a WAV for abuffer
loopOn(bytes, abuffer) ==
    writeLoop([view |-> SubSeq(bytes, 1, 44), offset |-> 0, reads |-> {}],
              abuffer.channels, abuffer.length * abuffer.numberOfChannels * 2 + 44)

\* C31: the write loop of every WAV the editor produces exits after as many
\* iterations as the buffer has frames, with the write position at the total
\* byte length 44 + frames * channels * 2, having written frames * channels
\* samples and read each sample of each channel once and nothing past the last
\* frame; the sample of frame f, channel c (both from 0) is at byte offset
\* 44 + (f * channels + c) * 2.
C31_WriteLoopIsExactAndInterleaved ==
    [][((SaveSelection \/ HandleDelete) /\ wavBlob' # NoBlob) =>
          LET abuffer   == newBuffer'
              frames    == abuffer.length
              numOfChan == abuffer.numberOfChannels
              loop      == loopOn(wavBlob', abuffer)
          IN  /\ loop.offset = frames
              /\ Len(loop.view) = 44 + frames * numOfChan * 2
              /\ loop.view = wavBlob'
              /\ (Len(loop.view) - 44) \div 2 = frames * numOfChan
              /\ loop.reads = (1..numOfChan) \X (0..(frames - 1))
              /\ \A read \in loop.reads : read[2] < Len(abuffer.channels[read[1]])
              /\ \A f \in 0..(frames - 1), c \in 0..(numOfChan - 1) :
                    LET unsigned == littleEndian(wavBlob', 44 + (f * numOfChan + c) * 2, 2)
                    IN  (IF unsigned >= 32768 THEN unsigned - 65536 ELSE unsigned)
                            = intSampleOf(abuffer.channels[c + 1][f + 1])]_vars

\* C31 witness: a selection of two channels and at least two frames, whose
\* channels differ in their first frame, is about to be encoded.
C31_StereoSelectionAboutToBeEncoded ==
    /\ hasRegion
    /\ ENABLED (/\ SaveSelection
                /\ wavBlob' # NoBlob
                /\ newBuffer'.numberOfChannels = 2
                /\ newBuffer'.length >= 2
                /\ intSampleOf(newBuffer'.channels[1][1]) # intSampleOf(newBuffer'.channels[2][1])
                /\ Len(wavBlob') = 44 + newBuffer'.length * 4)

====
